---- MODULE Spec2Model ----
(***************************************************************************)
(* Model of the two prime-counting sieves of the repository:               *)
(*   sieve_of_eratosthenes_gpu  (src/prime_finder_gpu.py)                  *)
(*   segmented_sieve_gpu        (src/prime_finder_trillion.py)             *)
(* A run is one call of one of the two functions.  Tensors are functions   *)
(* over 0..size-1.  The wall clock (time.time()) and the device allocator  *)
(* (torch.ones) are the environment: a clock read may or may not see the   *)
(* clock advanced, an allocation may or may not succeed.  Exceptions end   *)
(* the run in pc = "error" with the exception type and the raising line.   *)
(* math.sqrt is exact on the bounded range, so int(math.sqrt(x)) is the    *)
(* integer square root.                                                    *)
(***************************************************************************)
EXTENDS Integers, Sequences, FiniteSets

\* Largest limit / n and largest segment_size a run is started with.
MaxLimit == 30
MaxSegSize == 4

VARIABLES
    fn,            \* which function the run calls: "whole" or "segmented"
    limit,         \* argument limit (segmented) or n (whole)
    segment_size,  \* argument segment_size
    pc,            \* position of the control thread
    now,           \* the wall clock
    start_time,    \* local start_time
    seg_start,     \* local seg_start
    sqrt_limit,    \* local sqrt_limit
    base_sieve,    \* tensor base_sieve (segmented) / is_prime (whole)
    base_primes,   \* tensor base_primes: [dim, vals]
    total_primes,  \* local total_primes (segmented) / prime_count (whole)
    num_segments,  \* local num_segments
    seg_num,       \* loop variable seg_num
    low, high,     \* window of the current segment
    segment,       \* tensor segment
    seg_prime_count, \* local seg_prime_count
    liveSegs,      \* indices of the segments whose buffer is allocated
    allocs,        \* number of buffers allocated so far in the run
    allocFailed,   \* the device refused an allocation
    err, errLine,  \* exception raised and the source line raising it
    returned,      \* the function has returned
    result,        \* the returned count
    windows        \* <<low, high>> of every segment counted so far

vars == <<fn, limit, segment_size, pc, now, start_time, seg_start, sqrt_limit,
          base_sieve, base_primes, total_primes, num_segments, seg_num, low,
          high, segment, seg_prime_count, liveSegs, allocs, allocFailed, err,
          errLine, returned, result, windows>>

----------------------------------------------------------------------------
(* Arithmetic of the host language *)

\* int(math.sqrt(x)) for x >= 0
ISqrt(x) == CHOOSE r \in 0..x : r * r <= x /\ (r + 1) * (r + 1) > x

\* a // b, floor division, b # 0 of either sign
PyFloorDiv(a, b) == IF b > 0 THEN a \div b ELSE (0 - a) \div (0 - b)

Min(a, b) == IF a <= b THEN a ELSE b

\* independent primality test (trial division) and prime-counting function
IsPrime(q) == q >= 2 /\ \A d \in 2..(q - 1) : q % d # 0
NumPrimes(a, b) == Cardinality({q \in a..b : IsPrime(q)})

----------------------------------------------------------------------------
(* Tensor operations *)

NoTensor == << >>

\* torch.ones(size, dtype=torch.bool)
Ones(size) == [k \in 0..(size - 1) |-> TRUE]

\* buf[start::step] = False  and  buf[torch.arange(start, len, step)] = False
Strike(buf, start, step) ==
    [k \in DOMAIN buf |-> IF k >= start /\ (k - start) % step = 0
                          THEN FALSE ELSE buf[k]]

\* buf.sum().item()
CountTrue(buf) == Cardinality({k \in DOMAIN buf : buf[k]})

RECURSIVE NonzeroFrom(_, _)
NonzeroFrom(buf, k) ==
    IF k \notin DOMAIN buf THEN << >>
    ELSE (IF buf[k] THEN <<k>> ELSE << >>) \o NonzeroFrom(buf, k + 1)

\* torch.nonzero(buf): the indices of the true flags, ascending
Nonzero(buf) == NonzeroFrom(buf, 0)

\* .squeeze(): every dimension of size 1 is dropped, so an index list with
\* exactly one element becomes a 0-d tensor
Squeeze(vals) == [dim |-> IF Len(vals) = 1 THEN 0 ELSE 1, vals |-> vals]

----------------------------------------------------------------------------
(* sieve_of_eratosthenes_gpu: the sieve loop *)

\* for i in range(2, limit): if is_prime[i]: is_prime[arange(i*i, n+1, i)] = False
RECURSIVE WholeLoop(_, _, _)
WholeLoop(buf, i, stop) ==
    IF i >= stop THEN buf
    ELSE WholeLoop(IF buf[i] THEN Strike(buf, i * i, i) ELSE buf, i + 1, stop)

\* is_prime after lines 20-36, for n >= 1
WholeSieve(n) ==
    WholeLoop([Ones(n + 1) EXCEPT ![0] = FALSE, ![1] = FALSE], 2, ISqrt(n) + 1)

----------------------------------------------------------------------------
(* segmented_sieve_gpu: base primes and the strikes of one segment *)

BaseLoopStopShort(sq) == ISqrt(sq)

\* upper end of range(2, int(math.sqrt(sqrt_limit)) + 1)
BaseLoopStop(sq) == ISqrt(sq) + 1

\* for i in range(2, ...): if base_sieve[i]: base_sieve[i*i::i] = False
RECURSIVE BaseLoop(_, _, _)
BaseLoop(buf, i, stop) ==
    IF i >= stop THEN buf
    ELSE BaseLoop(IF buf[i] THEN Strike(buf, i * i, i) ELSE buf, i + 1, stop)

\* base_sieve after lines 23-27 (its size sqrt_limit + 1 is at least 2)
BaseSieved(buf, sq) ==
    BaseLoop([buf EXCEPT ![0] = FALSE, ![1] = FALSE], 2, BaseLoopStop(sq))

FirstMultipleAbove(lo, prime) == (lo \div prime) * prime + prime

\* start: the first multiple of prime in the segment
FirstMultiple(lo, prime) ==
    LET start == PyFloorDiv(lo + prime - 1, prime) * prime
    IN  IF start < lo THEN start + prime ELSE start

\* for prime in base_primes: ... segment[arange(start - low, seg_size, prime)] = False
RECURSIVE StrikeAll(_, _, _, _, _)
StrikeAll(buf, primes, j, lo, hi) ==
    IF j > Len(primes) THEN buf
    ELSE LET prime == primes[j]
             start == FirstMultiple(lo, prime)
         IN  StrikeAll(IF start <= hi THEN Strike(buf, start - lo, prime) ELSE buf,
                       primes, j + 1, lo, hi)

ReleaseSegmentKeep(live, s) == live

\* del segment; torch.cuda.empty_cache()
ReleaseSegment(live, s) == live \ {s}

AllocFailurePcSkip == "seg_release"

\* torch.ones raising: nothing catches it, the call unwinds
AllocFailurePc == "error"

----------------------------------------------------------------------------
(* The state machine *)

NoPrimes == [dim |-> 1, vals |-> << >>]

Init ==
    /\ fn \in {"whole", "segmented"}
    /\ limit \in (-1)..MaxLimit
    /\ segment_size \in (-1)..MaxSegSize
    /\ (fn = "whole" => segment_size = 1)
    /\ pc = IF fn = "whole" THEN "w_alloc" ELSE "entry"
    /\ now = 0 /\ start_time = 0 /\ seg_start = 0
    /\ sqrt_limit = 0
    /\ base_sieve = NoTensor
    /\ base_primes = NoPrimes
    /\ total_primes = 0 /\ num_segments = 0 /\ seg_num = 0
    /\ low = 0 /\ high = 0
    /\ segment = NoTensor
    /\ seg_prime_count = 0
    /\ liveSegs = {}
    /\ allocs = 0
    /\ allocFailed = FALSE
    /\ err = "none" /\ errLine = 0
    /\ returned = FALSE /\ result = 0
    /\ windows = << >>

Raise(type, line) == pc' = "error" /\ err' = type /\ errLine' = line

NoRaise == err' = err /\ errLine' = errLine

\* lines 10-18: start_time = time.time(); sqrt_limit = int(math.sqrt(limit)) + 1
Entry ==
    /\ pc = "entry"
    /\ \E d \in 0..1 : now' = now + d /\ start_time' = now'
    /\ IF limit < 0
       THEN Raise("ValueError", 18) /\ sqrt_limit' = sqrt_limit
       ELSE sqrt_limit' = ISqrt(limit) + 1 /\ pc' = "base_alloc" /\ NoRaise
    /\ UNCHANGED <<fn, limit, segment_size, seg_start, base_sieve, base_primes,
                   total_primes, num_segments, seg_num, low, high, segment,
                   seg_prime_count, liveSegs, allocs, allocFailed, returned,
                   result, windows>>

\* lines 20-22: base_sieve = torch.ones(sqrt_limit + 1)
BaseAlloc ==
    /\ pc = "base_alloc"
    /\ \E d \in 0..1 : now' = now + d
    /\ \/ /\ base_sieve' = Ones(sqrt_limit + 1)
          /\ allocs' = allocs + 1
          /\ pc' = "base_sieve"
          /\ NoRaise
          /\ UNCHANGED allocFailed
       \/ /\ allocFailed' = TRUE
          /\ Raise("OutOfMemoryError", 22)
          /\ UNCHANGED <<base_sieve, allocs>>
    /\ UNCHANGED <<fn, limit, segment_size, start_time, seg_start, sqrt_limit,
                   base_primes, total_primes, num_segments, seg_num, low, high,
                   segment, seg_prime_count, liveSegs, returned, result,
                   windows>>

\* lines 23-29: sieve the base buffer; base_primes = nonzero(...).squeeze()
BaseSieve ==
    /\ pc = "base_sieve"
    /\ base_sieve' = BaseSieved(base_sieve, sqrt_limit)
    /\ base_primes' = Squeeze(Nonzero(base_sieve'))
    /\ pc' = "base_count"
    /\ UNCHANGED <<fn, limit, segment_size, now, start_time, seg_start,
                   sqrt_limit, total_primes, num_segments, seg_num, low, high,
                   segment, seg_prime_count, liveSegs, allocs, allocFailed,
                   err, errLine, returned, result, windows>>

\* lines 30-35: len(base_primes) (a 0-d tensor has no len);
\* num_segments = (limit - sqrt_limit) // segment_size + 1
BaseCount ==
    /\ pc = "base_count"
    /\ \E d \in 0..1 : now' = now + d
    /\ IF base_primes.dim = 0
       THEN Raise("TypeError", 31) /\ UNCHANGED <<total_primes, num_segments>>
       ELSE /\ total_primes' = Len(base_primes.vals)
            /\ IF segment_size = 0
               THEN Raise("ZeroDivisionError", 35) /\ UNCHANGED num_segments
               ELSE /\ num_segments' =
                          PyFloorDiv(limit - sqrt_limit, segment_size) + 1
                    /\ pc' = "seg_loop"
                    /\ NoRaise
    /\ UNCHANGED <<fn, limit, segment_size, start_time, seg_start, sqrt_limit,
                   base_sieve, base_primes, seg_num, low, high, segment,
                   seg_prime_count, liveSegs, allocs, allocFailed, returned,
                   result, windows>>

\* lines 40-47: next seg_num of range(num_segments); low, high; break when
\* low > high; seg_start = time.time()
SegLoop ==
    /\ pc = "seg_loop"
    /\ IF seg_num >= num_segments
       THEN pc' = "finish" /\ UNCHANGED <<low, high, now, seg_start>>
       ELSE /\ low' = sqrt_limit + seg_num * segment_size
            /\ high' = Min(low' + segment_size - 1, limit)
            /\ IF low' > high'
               THEN pc' = "finish" /\ UNCHANGED <<now, seg_start>>
               ELSE /\ \E d \in 0..1 : now' = now + d /\ seg_start' = now'
                    /\ pc' = "seg_alloc"
    /\ UNCHANGED <<fn, limit, segment_size, start_time, sqrt_limit, base_sieve,
                   base_primes, total_primes, num_segments, seg_num, segment,
                   seg_prime_count, liveSegs, allocs, allocFailed, err,
                   errLine, returned, result, windows>>

\* lines 50-51: segment = torch.ones(seg_size)
SegAlloc ==
    /\ pc = "seg_alloc"
    /\ \/ /\ segment' = Ones(high - low + 1)
          /\ liveSegs' = liveSegs \cup {seg_num}
          /\ allocs' = allocs + 1
          /\ pc' = "seg_strike"
          /\ NoRaise
          /\ UNCHANGED allocFailed
       \/ /\ allocFailed' = TRUE
          /\ pc' = AllocFailurePc
          /\ IF pc' = "error"
             THEN err' = "OutOfMemoryError" /\ errLine' = 51
             ELSE NoRaise
          /\ UNCHANGED <<segment, liveSegs, allocs>>
    /\ UNCHANGED <<fn, limit, segment_size, now, start_time, seg_start,
                   sqrt_limit, base_sieve, base_primes, total_primes,
                   num_segments, seg_num, low, high, seg_prime_count,
                   returned, result, windows>>

\* lines 54-64: strike the multiples of every base prime
SegStrike ==
    /\ pc = "seg_strike"
    /\ segment' = StrikeAll(segment, base_primes.vals, 1, low, high)
    /\ pc' = "seg_count"
    /\ UNCHANGED <<fn, limit, segment_size, now, start_time, seg_start,
                   sqrt_limit, base_sieve, base_primes, total_primes,
                   num_segments, seg_num, low, high, seg_prime_count,
                   liveSegs, allocs, allocFailed, err, errLine, returned,
                   result, windows>>

\* lines 67-68: seg_prime_count = segment.sum(); total_primes += seg_prime_count
SegCount ==
    /\ pc = "seg_count"
    /\ seg_prime_count' = CountTrue(segment)
    /\ total_primes' = total_primes + seg_prime_count'
    /\ windows' = Append(windows, <<low, high>>)
    /\ pc' = "seg_report"
    /\ UNCHANGED <<fn, limit, segment_size, now, start_time, seg_start,
                   sqrt_limit, base_sieve, base_primes, num_segments, seg_num,
                   low, high, segment, liveSegs, allocs, allocFailed, err,
                   errLine, returned, result>>

\* lines 69-80: seg_time, elapsed; rate = high / elapsed; the report prints
\* seg_size / seg_time
SegReport ==
    /\ pc = "seg_report"
    /\ \E d1, d2 \in 0..1 :
          LET seg_time == (now + d1) - seg_start
              elapsed  == (now + d1 + d2) - start_time
          IN  /\ now' = now + d1 + d2
              /\ IF elapsed = 0
                 THEN Raise("ZeroDivisionError", 73)
                 ELSE IF seg_time = 0
                      THEN Raise("ZeroDivisionError", 78)
                      ELSE pc' = "seg_release" /\ NoRaise
    /\ UNCHANGED <<fn, limit, segment_size, start_time, seg_start, sqrt_limit,
                   base_sieve, base_primes, total_primes, num_segments,
                   seg_num, low, high, segment, seg_prime_count, liveSegs,
                   allocs, allocFailed, returned, result, windows>>

\* lines 82-83: del segment; torch.cuda.empty_cache(); then the next seg_num
SegRelease ==
    /\ pc = "seg_release"
    /\ liveSegs' = ReleaseSegment(liveSegs, seg_num)
    /\ segment' = NoTensor
    /\ seg_num' = seg_num + 1
    /\ pc' = "seg_loop"
    /\ UNCHANGED <<fn, limit, segment_size, now, start_time, seg_start,
                   sqrt_limit, base_sieve, base_primes, total_primes,
                   num_segments, low, high, seg_prime_count, allocs,
                   allocFailed, err, errLine, returned, result, windows>>

\* lines 85-95: total_time; the summary prints limit / total_time;
\* return total_primes
Finish ==
    /\ pc = "finish"
    /\ \E d \in 0..1 :
          /\ now' = now + d
          /\ IF now' - start_time = 0
             THEN Raise("ZeroDivisionError", 91) /\ UNCHANGED <<returned, result>>
             ELSE /\ returned' = TRUE
                  /\ result' = total_primes
                  /\ pc' = "done"
                  /\ NoRaise
    /\ UNCHANGED <<fn, limit, segment_size, start_time, seg_start, sqrt_limit,
                   base_sieve, base_primes, total_primes, num_segments,
                   seg_num, low, high, segment, seg_prime_count, liveSegs,
                   allocs, allocFailed, windows>>

----------------------------------------------------------------------------
(* sieve_of_eratosthenes_gpu, n = limit *)

\* lines 17-20: start_time = time.time(); is_prime = torch.ones(n + 1)
WholeAlloc ==
    /\ pc = "w_alloc"
    /\ \E d \in 0..1 : now' = now + d /\ start_time' = now'
    /\ \/ /\ base_sieve' = Ones(limit + 1)
          /\ allocs' = allocs + 1
          /\ pc' = "w_sieve"
          /\ NoRaise
          /\ UNCHANGED allocFailed
       \/ /\ allocFailed' = TRUE
          /\ Raise("OutOfMemoryError", 20)
          /\ UNCHANGED <<base_sieve, allocs>>
    /\ UNCHANGED <<fn, limit, segment_size, seg_start, sqrt_limit, base_primes,
                   total_primes, num_segments, seg_num, low, high, segment,
                   seg_prime_count, liveSegs, returned, result, windows>>

\* lines 21-39: is_prime[0] = is_prime[1] = False (an index past the end
\* raises); the sieve loop; prime_count = is_prime.sum()
WholeRun ==
    /\ pc = "w_sieve"
    /\ IF limit + 1 < 2
       THEN /\ Raise("IndexError", 21)
            /\ base_sieve' = [k \in DOMAIN base_sieve |-> FALSE]
            /\ UNCHANGED total_primes
       ELSE /\ base_sieve' = WholeSieve(limit)
            /\ total_primes' = CountTrue(base_sieve')
            /\ pc' = "w_finish"
            /\ NoRaise
    /\ UNCHANGED <<fn, limit, segment_size, now, start_time, seg_start,
                   sqrt_limit, base_primes, num_segments, seg_num, low, high,
                   segment, seg_prime_count, liveSegs, allocs, allocFailed,
                   returned, result, windows>>

\* lines 41-49: elapsed; the summary prints n / elapsed; return prime_count
WholeFinish ==
    /\ pc = "w_finish"
    /\ \E d \in 0..1 :
          /\ now' = now + d
          /\ IF now' - start_time = 0
             THEN Raise("ZeroDivisionError", 46) /\ UNCHANGED <<returned, result>>
             ELSE /\ returned' = TRUE
                  /\ result' = total_primes
                  /\ pc' = "done"
                  /\ NoRaise
    /\ UNCHANGED <<fn, limit, segment_size, start_time, seg_start, sqrt_limit,
                   base_sieve, base_primes, total_primes, num_segments,
                   seg_num, low, high, segment, seg_prime_count, liveSegs,
                   allocs, allocFailed, windows>>

Next ==
    \/ Entry \/ BaseAlloc \/ BaseSieve \/ BaseCount
    \/ SegLoop \/ SegAlloc \/ SegStrike \/ SegCount \/ SegReport
    \/ SegRelease \/ Finish
    \/ WholeAlloc \/ WholeRun \/ WholeFinish

Spec == Init /\ [][Next]_vars

Terminated == pc \in {"done", "error"}

\* the run ended, and neither the allocator nor a zero clock difference
\* was what ended it
EndedOnItsOwn ==
    Terminated /\ ~allocFailed /\ err # "ZeroDivisionError"

ValidSegmentedCall == fn = "segmented" /\ limit >= 2 /\ segment_size >= 1

Range(seq) == {seq[j] : j \in 1..Len(seq)}

\* ws is a sequence of windows that tiles lo..hi in order, each window of
\* 1..size numbers
Tiles(ws, lo, hi, size) ==
    /\ Len(ws) >= 1
    /\ ws[1][1] = lo
    /\ ws[Len(ws)][2] = hi
    /\ \A j \in 1..Len(ws) :
          /\ ws[j][1] <= ws[j][2]
          /\ ws[j][2] - ws[j][1] + 1 <= size
    /\ \A j \in 1..(Len(ws) - 1) : ws[j + 1][1] = ws[j][2] + 1

----------------------------------------------------------------------------
(* Properties *)

\* C1: for limit >= 2 and segment_size >= 1 the segmented sieve returns the
\* same prime count as the whole-range sieve of the same limit.
C1_SegmentedAgreesWithWhole ==
    (ValidSegmentedCall /\ EndedOnItsOwn)
        => (returned /\ result = CountTrue(WholeSieve(limit)))

\* C2: for every n >= 0 the whole-range sieve completes and returns the
\* number of primes in [0, n].
C2_WholeCountsPrimes ==
    (fn = "whole" /\ limit >= 0 /\ EndedOnItsOwn)
        => (returned /\ result = NumPrimes(0, limit))

\* C3: a segmented call with limit < 0 or segment_size <= 0 allocates no
\* buffer and returns no count; it ends in an error.
C3_InvalidRangeRejected ==
    (fn = "segmented" /\ (limit < 0 \/ segment_size <= 0))
        => /\ allocs = 0
           /\ ~returned
           /\ (Terminated => err # "none")

\* C4: once an allocation of the segmented sieve has failed the run is in
\* its error exit with a resource error, every segment before the failing
\* one has been counted and none after it, and no total is returned.
C4_AllocationFailureAborts ==
    (fn = "segmented" /\ allocFailed)
        => /\ pc = "error"
           /\ err = "OutOfMemoryError"
           /\ ~returned
           /\ Len(windows) = seg_num

C4_Witness ==
    /\ fn = "segmented" /\ allocFailed /\ errLine = 51
    /\ seg_num >= 1 /\ seg_num < num_segments

\* C5: at most one segment buffer is allocated, and it is the buffer of the
\* current segment; none is allocated when the next one is requested, and
\* the buffer is still there when its count has been added and it is about
\* to be released.
C5_OneSegmentBuffer ==
    /\ Cardinality(liveSegs) <= 1
    /\ liveSegs \subseteq {seg_num}
    /\ (pc \in {"seg_loop", "seg_alloc"} => liveSegs = {})
    /\ (pc = "seg_release" => liveSegs = {seg_num} /\ Len(windows) = seg_num + 1)

C5_Witness ==
    pc = "seg_strike" /\ seg_num >= 1 /\ liveSegs = {seg_num}

\* C6: for limit >= 2 and segment_size >= 1 the windows the loop has
\* processed when the run ends tile [floor(sqrt(limit)) + 1, limit]:
\* contiguous, disjoint, each of 1..segment_size numbers.
C6_WindowsTileRange ==
    (ValidSegmentedCall /\ EndedOnItsOwn)
        => Tiles(windows, ISqrt(limit) + 1, limit, segment_size)

BasePrimesWellFormed ==
    /\ \A j \in 1..Len(base_primes.vals) :
          /\ base_primes.vals[j] \notin {0, 1}
          /\ IsPrime(base_primes.vals[j])
    /\ \A j \in 1..(Len(base_primes.vals) - 1) :
          base_primes.vals[j] < base_primes.vals[j + 1]

C9_TinyLimitReturnsZero ==
    (fn = "segmented" /\ limit >= 0 /\ segment_size >= 1
        /\ ISqrt(limit) + 1 >= limit /\ EndedOnItsOwn)
        => (returned /\ result = 0 /\ windows = << >>)

\* C10: the progress report of a segment never raises a division error.
C10_ReportNeverDivides ==
    ~(err = "ZeroDivisionError" /\ errLine \in {73, 78})

====
